---- MODULE Spec2Model ----
(***************************************************************************)
(* Model of src/main.js: the recipe, the property-editor panel (lil-gui),  *)
(* the base/working geometry pair and the animate() frame loop that resets *)
(* the working geometry and applies the recipe's modifiers to it.          *)
(*                                                                         *)
(* Numbers.  JavaScript numbers are IEEE doubles.  They are modelled in    *)
(* fixed point: a finite number is <<"num", n>> and stands for n / Unit;   *)
(* the non-finite values the code can produce are kept apart, as           *)
(* <<"inf", 1>>, <<"inf", -1>> and <<"nan", 0>>, and the JavaScript value  *)
(* undefined (a field a recipe does not give) is <<"undef", 0>>, which     *)
(* arithmetic turns into NaN as ToNumber does.                             *)
(***************************************************************************)
EXTENDS Integers, Sequences, FiniteSets, TLC

\* ---------------------------------------------------------------- bounds
\* Segment counts of the generated cylinder (32 and 64 in the generator),
\* scaled down so that a mesh has a handful of vertices.
RadialSegments == 2
HeightSegments == 1
\* Slider edits made to one recipe.
MaxEdits == 1
\* Appendages alive at once.
MaxAppendages == 1
\* Largest index handed to moveModifierUp / moveModifierDown directly.
MaxIndexArg == 3

\* ------------------------------------------------------------- numbers
Unit == 100
Pi == 314
TwoPi == 2 * Pi
HalfPi == Pi \div 2

Num(n) == <<"num", n>>
NaN == <<"nan", 0>>
PosInf == <<"inf", 1>>
NegInf == <<"inf", -1>>
Undefined == <<"undef", 0>>

IsNaN(a) == a[1] \notin {"num", "inf"}
IsInf(a) == a[1] = "inf"
Sgn(a) == IF a[2] > 0 THEN 1 ELSE IF a[2] < 0 THEN -1 ELSE 0
Inf(s) == IF s < 0 THEN NegInf ELSE PosInf

\* a ?? d
Coalesce(a, d) == IF a = Undefined THEN d ELSE a

\* p / q rounded to the nearest integer (q # 0)
RoundDiv(p, q) ==
  IF q > 0 THEN (2 * p + q) \div (2 * q) ELSE (2 * (0 - p) - q) \div (2 * (0 - q))

FNeg(a) == IF IsNaN(a) THEN NaN ELSE <<a[1], 0 - a[2]>>

FAdd(a, b) ==
  IF IsNaN(a) \/ IsNaN(b) THEN NaN
  ELSE IF IsInf(a) THEN (IF IsInf(b) /\ b[2] # a[2] THEN NaN ELSE a)
  ELSE IF IsInf(b) THEN b
  ELSE Num(a[2] + b[2])

FSub(a, b) == FAdd(a, FNeg(b))

FMul(a, b) ==
  IF IsNaN(a) \/ IsNaN(b) THEN NaN
  ELSE IF IsInf(a) \/ IsInf(b)
       THEN (IF Sgn(a) = 0 \/ Sgn(b) = 0 THEN NaN ELSE Inf(Sgn(a) * Sgn(b)))
  ELSE Num(RoundDiv(a[2] * b[2], Unit))

\* a / b; a zero divisor is +0 (no recipe value or result here is -0)
FDiv(a, b) ==
  IF IsNaN(a) \/ IsNaN(b) THEN NaN
  ELSE IF IsInf(a) THEN (IF IsInf(b) THEN NaN
                         ELSE Inf(Sgn(a) * (IF b[2] < 0 THEN -1 ELSE 1)))
  ELSE IF IsInf(b) THEN Num(0)
  ELSE IF b[2] = 0 THEN (IF a[2] = 0 THEN NaN ELSE Inf(Sgn(a)))
  ELSE Num(RoundDiv(a[2] * Unit, b[2]))

\* a > b, false when either is NaN
FGreater(a, b) ==
  IF IsNaN(a) \/ IsNaN(b) THEN FALSE
  ELSE IF IsInf(a) THEN a[2] > 0 /\ a # b
  ELSE IF IsInf(b) THEN b[2] < 0
  ELSE a[2] > b[2]

\* Math.max(a, b), Math.min(a, b)
FMax(a, b) == IF IsNaN(a) \/ IsNaN(b) THEN NaN ELSE IF FGreater(b, a) THEN b ELSE a
FMin(a, b) == IF IsNaN(a) \/ IsNaN(b) THEN NaN ELSE IF FGreater(a, b) THEN b ELSE a

\* THREE.MathUtils.clamp(value, min, max) = Math.max(min, Math.min(max, value))
Clamp(value, lo, hi) == FMax(lo, FMin(hi, value))

\* floor(sqrt(n)) by bisection on lo..hi
RECURSIVE ISqrtIn(_, _, _)
ISqrtIn(n, lo, hi) ==
  IF lo >= hi THEN lo
  ELSE LET mid == (lo + hi + 1) \div 2
       IN IF mid * mid <= n THEN ISqrtIn(n, mid, hi) ELSE ISqrtIn(n, lo, mid - 1)

ISqrt(n) == ISqrtIn(n, 0, 4096)

\* Math.sqrt
FSqrt(a) ==
  IF IsNaN(a) THEN NaN
  ELSE IF IsInf(a) THEN (IF a[2] > 0 THEN PosInf ELSE NaN)
  ELSE IF a[2] < 0 THEN NaN
  ELSE Num(ISqrt(a[2] * Unit))

\* sin of x / Unit radians, times Unit (Bhaskara's approximation on [0, pi])
SinInt(x) ==
  LET r == x % TwoPi
      h == IF r >= Pi THEN r - Pi ELSE r
      p == h * (Pi - h)
      s == RoundDiv(16 * p * Unit, 5 * Pi * Pi - 4 * p)
  IN IF r >= Pi THEN 0 - s ELSE s

\* Math.sin, Math.cos
FSin(a) == IF IsNaN(a) \/ IsInf(a) THEN NaN ELSE Num(SinInt(a[2]))
FCos(a) == IF IsNaN(a) \/ IsInf(a) THEN NaN ELSE Num(SinInt(a[2] + HalfPi))

Abs(n) == IF n < 0 THEN 0 - n ELSE n

\* atan of r / Unit for 0 <= r <= Unit, times Unit
AtanUnit(r) == RoundDiv(r * (79 + RoundDiv(27 * (Unit - r), Unit)), Unit)

\* Math.atan2(z, x) for finite arguments
Atan2Int(z, x) ==
  IF x = 0 /\ z = 0 THEN 0
  ELSE LET a == Abs(z)
           b == Abs(x)
           first == IF a <= b THEN AtanUnit(RoundDiv(a * Unit, b))
                    ELSE HalfPi - AtanUnit(RoundDiv(b * Unit, a))
           upper == IF x < 0 THEN Pi - first ELSE first
       IN IF z < 0 THEN 0 - upper ELSE upper

FAtan2(z, x) ==
  IF IsNaN(z) \/ IsNaN(x) \/ IsInf(z) \/ IsInf(x) THEN NaN ELSE Num(Atan2Int(z[2], x[2]))

\* ------------------------------------------------------------ geometry
\* A geometry is the sequence of its vertex positions, each <<x, y, z>>;
\* the index buffer never changes and is left out.
Vec(x, y, z) == <<x, y, z>>

\* THREE.CylinderGeometry's torso: rows 0..heightSegments from the top,
\* columns 0..radialSegments round the axis; then one centre vertex for
\* each cap whose radius is positive.
CylinderVertex(radiusTop, radiusBottom, height, rs, hs, row, col) ==
  LET rowN == Num(RoundDiv(row * Unit, hs))
      radius == FAdd(FMul(rowN, FSub(radiusBottom, radiusTop)), radiusTop)
      theta == Num(RoundDiv(col * TwoPi, rs))
      halfHeight == FDiv(height, Num(2 * Unit))
  IN Vec(FMul(radius, FSin(theta)),
         FAdd(FNeg(FMul(rowN, height)), halfHeight),
         FMul(radius, FCos(theta)))

CylinderGeometry(radiusTop, radiusBottom, height, rs, hs) ==
  LET torso == [k \in 1..((hs + 1) * (rs + 1)) |->
                  CylinderVertex(radiusTop, radiusBottom, height, rs, hs,
                                 (k - 1) \div (rs + 1), (k - 1) % (rs + 1))]
      halfHeight == FDiv(height, Num(2 * Unit))
      top == IF FGreater(radiusTop, Num(0))
             THEN <<Vec(Num(0), halfHeight, Num(0))>> ELSE <<>>
      bottom == IF FGreater(radiusBottom, Num(0))
                THEN <<Vec(Num(0), FNeg(halfHeight), Num(0))>> ELSE <<>>
  IN torso \o top \o bottom

\* THREE.TorusGeometry: rows 0..radialSegments round the tube, columns
\* 0..tubularSegments round the ring.
TorusVertex(radius, tube, rs, ts, row, col) ==
  LET u == Num(RoundDiv(col * TwoPi, ts))
      v == Num(RoundDiv(row * TwoPi, rs))
      ring == FAdd(radius, FMul(tube, FCos(v)))
  IN Vec(FMul(ring, FCos(u)), FMul(ring, FSin(u)), FMul(tube, FSin(v)))

TorusGeometry(radius, tube, rs, ts) ==
  [k \in 1..((rs + 1) * (ts + 1)) |->
     TorusVertex(radius, tube, rs, ts, (k - 1) \div (ts + 1), (k - 1) % (ts + 1))]

\* The value buildBaseGeometry throws an Error for.
Thrown == <<"thrown">>

BuildBaseGeometry(base) ==
  IF base.type = "torus"
  THEN TorusGeometry(base.radius, base.tube, base.radialSegments, base.tubularSegments)
  ELSE IF base.type = "cylinder"
  THEN CylinderGeometry(Coalesce(base.radiusTop, Num(5)),
                        Coalesce(base.radiusBottom, Num(40)),
                        Coalesce(base.height, Num(300)),
                        base.radialSegments, base.heightSegments)
  ELSE Thrown

\* The value buildMaterial throws an Error for is Thrown, too.
BuildMaterial(mat) ==
  IF mat.type = "standard"
  THEN [color |-> mat.color, emissive |-> mat.emissive, wireframe |-> mat.wireframe,
        metalness |-> Coalesce(mat.metalness, Num(0)),
        roughness |-> Coalesce(mat.roughness, Num(Unit))]
  ELSE Thrown

\* ----------------------------------------------------------- modifiers
\* A modifier object: id is its identity (two objects with equal fields
\* are still two objects); a field the object does not have is Undefined.
Mod(id, type, enabled, axis, range, amount, strength, twist, noiseAmp, noiseFreq, timeScale) ==
  [id |-> id, type |-> type, enabled |-> enabled, axis |-> axis, range |-> range,
   amount |-> amount, strength |-> strength, twist |-> twist, noiseAmp |-> noiseAmp,
   noiseFreq |-> noiseFreq, timeScale |-> timeScale]

\* What an array slot holds when it holds no modifier: the value undefined,
\* or nothing at all (a hole, which reads as undefined).
UndefinedMod ==
  Mod(0, "undefined", FALSE, "undefined", Undefined, Undefined, Undefined, Undefined,
      Undefined, Undefined, Undefined)
HoleMod ==
  Mod(0, "hole", FALSE, "undefined", Undefined, Undefined, Undefined, Undefined,
      Undefined, Undefined, Undefined)

GetDriverValue(v, axis) ==
  CASE axis = "x" -> v[1]
    [] axis = "y" -> v[2]
    [] axis = "z" -> v[3]
    [] axis = "radial" -> FSqrt(FAdd(FMul(v[1], v[1]), FMul(v[3], v[3])))
    [] axis = "angle" -> FAtan2(v[3], v[1])
    [] OTHER -> v[2]

\* The scale factor s of taper for one vertex.
TaperScale(v, mod) ==
  LET d == GetDriverValue(v, mod.axis)
      tt == FMul(FMax(Num(0), FDiv(d, mod.range)), mod.amount)
  IN Clamp(FAdd(Num(Unit), FMul(tt, mod.strength)), Num(20), Num(200))

TaperVertex(v, mod) ==
  LET s == TaperScale(v, mod) IN Vec(FMul(v[1], s), v[2], FMul(v[3], s))

taper(geom, mod, time) == [k \in 1..Len(geom) |-> TaperVertex(geom[k], mod)]

BendVertex(v, mod) ==
  LET d == GetDriverValue(v, mod.axis)
      tt == FMul(d, mod.amount)
  IN Vec(v[1], FAdd(v[2], FMul(FMul(tt, tt), mod.strength)), v[3])

bend(geom, mod, time) == [k \in 1..Len(geom) |-> BendVertex(geom[k], mod)]

\* radialLength > 0.0001; a length is a multiple of 1 / Unit here
Epsilon == 0

TwistNoiseVertex(v, mod, localTime, normalizeRange) ==
  LET animatedTwist == FMul(mod.twist, FAdd(Num(Unit), FMul(Num(30), FSin(localTime))))
      normalizedY == FDiv(v[2], normalizeRange)
      angle == FMul(animatedTwist, normalizedY)
      cosA == FCos(angle)
      sinA == FSin(angle)
      x == FSub(FMul(v[1], cosA), FMul(v[3], sinA))
      z == FAdd(FMul(v[1], sinA), FMul(v[3], cosA))
      n == FMul(FMul(FSin(FAdd(FMul(x, mod.noiseFreq), localTime)),
                     FSin(FAdd(FMul(v[2], mod.noiseFreq), localTime))),
                FSin(FAdd(FMul(z, mod.noiseFreq), localTime)))
      radialLength == FSqrt(FAdd(FMul(x, x), FMul(z, z)))
      s == FMul(n, mod.noiseAmp)
  IN IF FGreater(radialLength, Num(Epsilon))
     THEN Vec(FAdd(x, FMul(FDiv(x, radialLength), s)),
              FAdd(v[2], FMul(Num(0), s)),
              FAdd(z, FMul(FDiv(z, radialLength), s)))
     ELSE Vec(x, v[2], z)

\* twistNoise reads the global recipe's base for its normalizeRange.
twistNoise(geom, mod, time, base) ==
  LET localTime == FMul(Num(time), Coalesce(mod.timeScale, Num(Unit)))
      normalizeRange == Coalesce(base.tube, Coalesce(base.height, Num(2 * Unit)))
  IN [k \in 1..Len(geom) |-> TwistNoiseVertex(geom[k], mod, localTime, normalizeRange)]

\* The keys of MODIFIERS.
MODIFIERS == {"twistNoise", "bend", "taper"}

\* fn(geometry, mod, t) for fn = MODIFIERS[mod.type]
ApplyModifier(geom, mod, time, base) ==
  CASE mod.type = "taper" -> taper(geom, mod, time)
    [] mod.type = "bend" -> bend(geom, mod, time)
    [] mod.type = "twistNoise" -> twistNoise(geom, mod, time, base)

\* -------------------------------------------------------------- recipe
Base(type, height, radiusTop, radiusBottom, radius, tube, rs, hs, ts) ==
  [type |-> type, height |-> height, radiusTop |-> radiusTop,
   radiusBottom |-> radiusBottom, radius |-> radius, tube |-> tube,
   radialSegments |-> rs, heightSegments |-> hs, tubularSegments |-> ts]

Material(type, color, emissive, roughness, metalness) ==
  [type |-> type, color |-> color, emissive |-> emissive, roughness |-> roughness,
   metalness |-> metalness, wireframe |-> FALSE]

\* A JavaScript array of modifiers: items are the slots 0..length-1 (slot k
\* is items[k + 1]); props are the properties a write to a negative index
\* leaves on the array object (an index of -1 is the lowest tried).
NegIndex == {0 - 1}

Array(items) == [items |-> items, props |-> [k \in NegIndex |-> UndefinedMod]]

\* mods[index]
ArrGet(arr, index) ==
  IF index < 0 THEN arr.props[index]
  ELSE IF index < Len(arr.items)
       THEN (IF arr.items[index + 1] = HoleMod THEN UndefinedMod ELSE arr.items[index + 1])
  ELSE UndefinedMod

\* mods[index] = value
ArrSet(arr, index, value) ==
  IF index < 0 THEN [arr EXCEPT !.props[index] = value]
  ELSE IF index < Len(arr.items) THEN [arr EXCEPT !.items[index + 1] = value]
  ELSE [arr EXCEPT !.items =
          arr.items \o [k \in 1..(index - Len(arr.items)) |-> HoleMod] \o <<value>>]

\* [mods[i], mods[j]] = [mods[j], mods[i]]
SwapSlots(arr, i, j) ==
  LET vi == ArrGet(arr, j)
      vj == ArrGet(arr, i)
  IN ArrSet(ArrSet(arr, i, vi), j, vj)

\* Math.random() as a percentage; rand(min, max) and choose(arr) on it.
Rand(min, max, u) == Num(min + RoundDiv(u * (max - min), 100))
Choose(arr, u) == arr[((u * Len(arr)) \div 100) + 1]

\* One run of generateAppendageRecipe draws twelve random numbers, in the
\* order of the object literal; the runs tried draw these.
DrawVectors == {[k \in 1..12 |-> 0], [k \in 1..12 |-> 50]}

GenerateAppendageRecipe(u, ids) ==
  [base |-> Base("cylinder", Rand(250, 450, u[1]), Rand(2, 10, u[3]), Rand(30, 60, u[2]),
                 Undefined, Undefined, RadialSegments, HeightSegments, 0),
   material |-> Material("standard", "#7a5a3a", "#120a05", Num(80), Num(5)),
   modifiers |-> Array(<<
     Mod(ids[1], "taper", TRUE, "y", Num(100), Rand(80, 140, u[4]), Rand(-80, -40, u[5]),
         Undefined, Undefined, Undefined, Undefined),
     Mod(ids[2], "bend", TRUE, Choose(<<"x", "z">>, u[6]), Undefined,
         Rand(30, 80, u[7]), Rand(20, 60, u[8]), Undefined, Undefined, Undefined, Undefined),
     Mod(ids[3], "twistNoise", TRUE, "y", Undefined, Undefined, Undefined,
         Rand(20, 60, u[9]), Rand(1, 5, u[10]), Rand(200, 500, u[11]), Rand(20, 60, u[12]))
   >>)]

\* The recipes recipe.json may hold: a base shape and a list of modifiers
\* taken from these templates.
Template(name, id) ==
  CASE name = "taper" ->
         Mod(id, "taper", TRUE, "y", Num(100), Num(100), Num(-50),
             Undefined, Undefined, Undefined, Undefined)
    [] name = "taperRange0" ->
         Mod(id, "taper", TRUE, "y", Num(0), Num(100), Num(-50),
             Undefined, Undefined, Undefined, Undefined)
    [] name = "bend" ->
         Mod(id, "bend", TRUE, "z", Undefined, Num(50), Num(40),
             Undefined, Undefined, Undefined, Undefined)
    [] name = "bendOff" ->
         Mod(id, "bend", FALSE, "y", Undefined, Num(50), Num(40),
             Undefined, Undefined, Undefined, Undefined)
    [] name = "twistNoise" ->
         Mod(id, "twistNoise", TRUE, "y", Undefined, Undefined, Undefined,
             Num(40), Num(3), Num(350), Num(40))
    [] name = "twistNoiseOff" ->
         Mod(id, "twistNoise", FALSE, "y", Undefined, Undefined, Undefined,
             Num(40), Num(3), Num(350), Undefined)
    [] name = "wave" ->
         Mod(id, "wave", TRUE, "y", Undefined, Num(50), Undefined,
             Undefined, Undefined, Undefined, Undefined)
    [] name = "waveOff" ->
         Mod(id, "wave", FALSE, "y", Undefined, Num(50), Undefined,
             Undefined, Undefined, Undefined, Undefined)

CylinderBase ==
  Base("cylinder", Num(300), Num(5), Num(40), Undefined, Undefined,
       RadialSegments, HeightSegments, 0)
TorusBase ==
  Base("torus", Undefined, Undefined, Undefined, Num(100), Num(30),
       RadialSegments, 0, RadialSegments)

InitialRecipe(base, names) ==
  [base |-> base,
   material |-> Material("standard", "#88ccff", "#000000", Num(40), Num(10)),
   modifiers |-> Array([k \in 1..Len(names) |-> Template(names[k], k)])]

InitialRecipes ==
  {InitialRecipe(CylinderBase, <<"taper", "bend", "twistNoise">>),
   InitialRecipe(CylinderBase, <<"bend", "taperRange0">>),
   InitialRecipe(CylinderBase, <<"taper", "waveOff">>),
   InitialRecipe(CylinderBase, <<"wave">>),
   InitialRecipe(TorusBase, <<"twistNoiseOff", "bendOff">>),
   InitialRecipe(CylinderBase, <<>>)}

\* ------------------------------------------------------ property editor
\* One folder of the panel: the index and the modifier object its
\* controllers were built with, and the type that chose its sliders.
Folder(index, mod) == [index |-> index, mod |-> mod.id, type |-> mod.type]

\* The folders rebuildGUI's forEach adds: it skips holes and stops, with a
\* TypeError, at the first slot that holds undefined.
FoldersOf(arr) ==
  LET stops == {k \in 1..Len(arr.items) : arr.items[k] = UndefinedMod}
      last == IF stops = {} THEN Len(arr.items)
              ELSE (CHOOSE k \in stops : \A j \in stops : k <= j) - 1
      built == [k \in 1..last |-> Folder(k - 1, arr.items[k])]
      IsFolder(f) == f.type # "hole"
  IN SelectSeq(built, IsFolder)

\* The fields a folder has sliders for.
ParamFields(type) ==
  CASE type = "bend" -> {"amount", "strength"}
    [] type = "twistNoise" -> {"twist", "noiseAmp", "noiseFreq", "timeScale"}
    [] type = "taper" -> {"amount", "strength"}
    [] OTHER -> {}

\* The value a slider is dragged to: the upper end of its range.
SliderValues(type, field) ==
  CASE type = "bend" /\ field = "amount" -> {Num(200)}
    [] type = "bend" /\ field = "strength" -> {Num(100)}
    [] type = "taper" /\ field = "amount" -> {Num(200)}
    [] type = "taper" /\ field = "strength" -> {Num(100)}
    [] field = "twist" -> {Num(300)}
    [] field = "noiseAmp" -> {Num(20)}
    [] field = "noiseFreq" -> {Num(1000)}
    [] field = "timeScale" -> {Num(300)}

\* object[field] = value for the modifier object with identity id, wherever
\* the array holds it
SetField(arr, id, field, value) ==
  LET Put(m) == IF m.id = id /\ m.id # 0 THEN [m EXCEPT ![field] = value] ELSE m
  IN [items |-> [k \in 1..Len(arr.items) |-> Put(arr.items[k])],
      props |-> [k \in NegIndex |-> Put(arr.props[k])]]

\* The object's current enabled flag (the checkbox shows it).
EnabledOf(arr, id) ==
  \E k \in 1..Len(arr.items) : arr.items[k].id = id /\ arr.items[k].enabled

\* --------------------------------------------------------------- state
VARIABLES
  recipe,        \* the global recipe
  baseGeometry,  \* the global baseGeometry (positions)
  geometry,      \* the global geometry, which is mesh.geometry (positions)
  material,      \* mesh.material
  rotationY,     \* mesh.rotation.y
  gui,           \* the folders of the panel
  appendages,    \* the appendages array
  pc,            \* "boot": the module is about to call animate() itself;
                 \* "idle": no code is running; "deform": animate() is in
                 \* its modifier loop
  idx,           \* the position of animate's loop in recipe.modifiers
  t,             \* animate's t, the clock's elapsed time times Unit
  rafPending,    \* requestAnimationFrame(animate) is waiting to be served
  edits,         \* slider edits made to the current recipe
  lastOp         \* the callback that ran last and how it ended: "load",
                 \* "animate", "animateFailed", "animateTypeError",
                 \* "generate", "panel" (a button, checkbox or slider of
                 \* the panel, or a direct call of a move function),
                 \* "createAppendage", "createAppendageFailed",
                 \* "clearAppendages"

vars == <<recipe, baseGeometry, geometry, material, rotationY, gui, appendages,
          pc, idx, t, rafPending, edits, lastOp>>

\* The elapsed times a frame may read from the clock: the first call of
\* getElapsedTime starts the clock and returns 0, a later one returns more.
Times == {0, 150}
ClockReads(first) == IF first THEN {0} ELSE {now \in Times : now >= t /\ now > 0}

\* The arguments moveModifierUp and moveModifierDown are called with when
\* they are called as functions rather than from a folder's button.
IndexArgs == (0 - 1)..MaxIndexArg

Init ==
  /\ recipe \in InitialRecipes
  /\ baseGeometry = BuildBaseGeometry(recipe.base)
  /\ geometry = baseGeometry
  /\ material = BuildMaterial(recipe.material)
  /\ rotationY = Num(0)
  /\ gui = FoldersOf(recipe.modifiers)
  /\ appendages = <<>>
  /\ pc = "boot"
  /\ idx = 0
  /\ t = 0
  /\ rafPending = FALSE
  /\ edits = 0
  /\ lastOp = "load"

\* A callback of the page (a click, a slider, an animation frame) starts
\* only when no code is running: animate() has no await or yield, so it
\* runs from its first line to its last, or to its throw, without a break.
CallStackEmptyAlways == TRUE
CallStackEmpty == pc = "idle"

\* ------------------------------------------------------------- animate
\* const t = clock.getElapsedTime(); geometry.copy(baseGeometry); the loop
\* over recipe.modifiers starts.
AnimateResetKeeps ==
  /\ pc = "boot" \/ (pc = "idle" /\ rafPending)
  /\ \E now \in ClockReads(pc = "boot") : t' = now
  /\ geometry' = geometry
  /\ idx' = 0
  /\ pc' = "deform"
  /\ rafPending' = FALSE
  /\ UNCHANGED <<recipe, baseGeometry, material, rotationY, gui, appendages, edits, lastOp>>

AnimateReset ==
  /\ pc = "boot" \/ (pc = "idle" /\ rafPending)
  /\ \E now \in ClockReads(pc = "boot") : t' = now
  /\ geometry' = baseGeometry
  /\ idx' = 0
  /\ pc' = "deform"
  /\ rafPending' = FALSE
  /\ UNCHANGED <<recipe, baseGeometry, material, rotationY, gui, appendages, edits, lastOp>>

\* if (mod.enabled === false) continue;
SkippedNever(mod) == FALSE
Skipped(mod) == mod.enabled = FALSE

\* One turn of the loop: the modifier at idx is skipped, or applied to the
\* geometry in place, or animate throws (a TypeError on a slot that holds
\* no object, the Error for a type that MODIFIERS has no function for).
AnimateDeform ==
  /\ pc = "deform"
  /\ idx < Len(recipe.modifiers.items)
  /\ LET mod == ArrGet(recipe.modifiers, idx)
     IN IF mod = UndefinedMod
        THEN /\ pc' = "idle"
             /\ lastOp' = "animateTypeError"
             /\ UNCHANGED <<geometry, idx>>
        ELSE IF Skipped(mod)
        THEN /\ idx' = idx + 1
             /\ UNCHANGED <<geometry, pc, lastOp>>
        ELSE IF mod.type \notin MODIFIERS
        THEN /\ pc' = "idle"
             /\ lastOp' = "animateFailed"
             /\ UNCHANGED <<geometry, idx>>
        ELSE /\ geometry' = ApplyModifier(geometry, mod, t, recipe.base)
             /\ idx' = idx + 1
             /\ UNCHANGED <<pc, lastOp>>
  /\ UNCHANGED <<recipe, baseGeometry, material, rotationY, gui, appendages, t,
                 rafPending, edits>>

\* After the loop: computeVertexNormals (the normals are a function of the
\* positions and are not kept), the rotation, the render and the request
\* for the next frame.
AnimateFinish ==
  /\ pc = "deform"
  /\ idx >= Len(recipe.modifiers.items)
  /\ rotationY' = FMul(Num(t), Num(25))
  /\ rafPending' = TRUE
  /\ pc' = "idle"
  /\ lastOp' = "animate"
  /\ UNCHANGED <<recipe, baseGeometry, geometry, material, gui, appendages, idx, t, edits>>

\* ----------------------------------------------------- editor callbacks
Min(S) == CHOOSE n \in S : \A m \in S : n <= m

\* The identities of three new objects: none that an object in `used` has.
FreshIds(used) ==
  LET free == (1..(Cardinality(used) + 3)) \ used
      a == Min(free)
      b == Min(free \ {a})
      c == Min(free \ {a, b})
  IN <<a, b, c>>

\* The objects still referenced once generateBtn.onclick has returned,
\* apart from the new recipe's: the handler replaces the array and the
\* panel's folders, which held the old ones.
KeptObjects == {}

\* generateBtn.onclick
GenerateClickKeepsGeometry ==
  /\ CallStackEmpty
  /\ \E u \in DrawVectors :
       LET r == GenerateAppendageRecipe(u, FreshIds(KeptObjects))
       IN /\ recipe' = r
          /\ baseGeometry' = BuildBaseGeometry(r.base)
          /\ geometry' = geometry
          /\ material' = BuildMaterial(r.material)
          /\ gui' = FoldersOf(r.modifiers)
  /\ edits' = 0
  /\ lastOp' = "generate"
  /\ UNCHANGED <<rotationY, appendages, pc, idx, t, rafPending>>

GenerateClick ==
  /\ CallStackEmpty
  /\ \E u \in DrawVectors :
       LET r == GenerateAppendageRecipe(u, FreshIds(KeptObjects))
       IN /\ recipe' = r
          /\ baseGeometry' = BuildBaseGeometry(r.base)
          /\ geometry' = baseGeometry'
          /\ material' = BuildMaterial(r.material)
          /\ gui' = FoldersOf(r.modifiers)
  /\ edits' = 0
  /\ lastOp' = "generate"
  /\ UNCHANGED <<rotationY, appendages, pc, idx, t, rafPending>>

\* moveModifierUp(index)
MoveModifierUpNoRebuild(index) ==
  /\ CallStackEmpty
  /\ IF index <= 0
     THEN UNCHANGED <<recipe, gui>>
     ELSE /\ recipe' = [recipe EXCEPT !.modifiers = SwapSlots(@, index - 1, index)]
          /\ gui' = gui
  /\ lastOp' = "panel"
  /\ UNCHANGED <<baseGeometry, geometry, material, rotationY, appendages, pc, idx, t,
                 rafPending, edits>>

MoveModifierUp(index) ==
  /\ CallStackEmpty
  /\ IF index <= 0
     THEN UNCHANGED <<recipe, gui>>
     ELSE /\ recipe' = [recipe EXCEPT !.modifiers = SwapSlots(@, index - 1, index)]
          /\ gui' = FoldersOf(recipe'.modifiers)
  /\ lastOp' = "panel"
  /\ UNCHANGED <<baseGeometry, geometry, material, rotationY, appendages, pc, idx, t,
                 rafPending, edits>>

\* moveModifierDown(index)
MoveModifierDown(index) ==
  /\ CallStackEmpty
  /\ IF index >= Len(recipe.modifiers.items) - 1
     THEN UNCHANGED <<recipe, gui>>
     ELSE /\ recipe' = [recipe EXCEPT !.modifiers = SwapSlots(@, index, index + 1)]
          /\ gui' = FoldersOf(recipe'.modifiers)
  /\ lastOp' = "panel"
  /\ UNCHANGED <<baseGeometry, geometry, material, rotationY, appendages, pc, idx, t,
                 rafPending, edits>>

\* A folder's up and down buttons call the functions with the index the
\* folder was built with.
ClickUp == \E k \in 1..Len(gui) : MoveModifierUp(gui[k].index)

ClickDown == \E k \in 1..Len(gui) : MoveModifierDown(gui[k].index)

\* A folder's enabled checkbox writes the object the folder was built with.
ToggleEnabled ==
  /\ CallStackEmpty
  /\ \E k \in 1..Len(gui) :
       recipe' = [recipe EXCEPT !.modifiers =
                    SetField(@, gui[k].mod, "enabled", ~EnabledOf(@, gui[k].mod))]
  /\ lastOp' = "panel"
  /\ UNCHANGED <<baseGeometry, geometry, material, rotationY, gui, appendages, pc, idx,
                 t, rafPending, edits>>

\* A folder's slider writes one numeric field of the object.
EditParam ==
  /\ CallStackEmpty
  /\ edits < MaxEdits
  /\ \E k \in 1..Len(gui) :
       \E field \in ParamFields(gui[k].type) :
         \E value \in SliderValues(gui[k].type, field) :
           recipe' = [recipe EXCEPT !.modifiers = SetField(@, gui[k].mod, field, value)]
  /\ edits' = edits + 1
  /\ lastOp' = "panel"
  /\ UNCHANGED <<baseGeometry, geometry, material, rotationY, gui, appendages, pc, idx,
                 t, rafPending>>

\* ----------------------------------------------------------- appendages
\* The recipes and positions createAppendage is called with.
AppendageRecipes ==
  {InitialRecipe(TorusBase, <<>>),
   InitialRecipe(Base("cylinder", Num(200), Undefined, Undefined, Undefined, Undefined,
                      RadialSegments, HeightSegments, 0), <<>>),
   InitialRecipe(Base("sphere", Undefined, Undefined, Undefined, Num(100), Undefined,
                      RadialSegments, HeightSegments, 0), <<>>)}

Positions == {Vec(Num(150), Num(0), Num(0))}

\* createAppendage(recipe, position): its first line assigns the global
\* baseGeometry; buildBaseGeometry's throw comes before the assignment.
CreateAppendage(r, position) ==
  /\ CallStackEmpty
  /\ Len(appendages) < MaxAppendages
  /\ LET built == BuildBaseGeometry(r.base)
     IN IF built = Thrown
        THEN /\ lastOp' = "createAppendageFailed"
             /\ UNCHANGED <<baseGeometry, appendages>>
        ELSE /\ baseGeometry' = built
             /\ appendages' = Append(appendages,
                                [recipe |-> r, baseGeometry |-> built, geometry |-> built,
                                 material |-> BuildMaterial(r.material),
                                 position |-> position])
             /\ lastOp' = "createAppendage"
  /\ UNCHANGED <<recipe, geometry, material, rotationY, gui, pc, idx, t, rafPending, edits>>

\* clearAppendages()
ClearAppendages ==
  /\ CallStackEmpty
  /\ appendages' = <<>>
  /\ lastOp' = "clearAppendages"
  /\ UNCHANGED <<recipe, baseGeometry, geometry, material, rotationY, gui, pc, idx, t,
                 rafPending, edits>>

CallMoveModifierUp == \E index \in IndexArgs : MoveModifierUp(index)

CallMoveModifierDown == \E index \in IndexArgs : MoveModifierDown(index)

CallCreateAppendage ==
  \E r \in AppendageRecipes : \E position \in Positions : CreateAppendage(r, position)

\* ------------------------------------------------------- specifications
\* The page as it is wired: the frame loop, the button and the panel.
Next ==
  \/ AnimateReset
  \/ AnimateDeform
  \/ AnimateFinish
  \/ GenerateClick
  \/ ClickUp
  \/ ClickDown
  \/ ToggleEnabled
  \/ EditParam

Spec == Init /\ [][Next]_vars

\* The functions of the file called as functions, with any index and any
\* recipe, beside the frame loop.
NextApi ==
  \/ AnimateReset
  \/ AnimateDeform
  \/ AnimateFinish
  \/ CallMoveModifierUp
  \/ CallMoveModifierDown
  \/ CallCreateAppendage
  \/ ClearAppendages

SpecApi == Init /\ [][NextApi]_vars

\* -------------------------------------------------------------- claims
Items == recipe.modifiers.items

\* The enabled modifiers of items, from the k-th on, applied one after
\* another to geom, each to the result of the one before.
RECURSIVE ApplyEnabled(_, _, _, _, _)
ApplyEnabled(items, k, geom, time, base) ==
  IF k > Len(items) THEN geom
  ELSE ApplyEnabled(items, k + 1,
                    IF items[k].enabled THEN ApplyModifier(geom, items[k], time, base)
                    ELSE geom,
                    time, base)

\* A frame has run its loop to the end (it completes), or has just
\* completed.
FrameEnd ==
  \/ pc = "deform" /\ idx >= Len(Items)
  \/ pc = "idle" /\ lastOp = "animate"

EnabledCount == Cardinality({k \in 1..Len(Items) : Items[k].enabled})

Reordered == \E k \in 1..(Len(Items) - 1) : Items[k].id > Items[k + 1].id

\* C1: at the end of every frame that completes, the working geometry is
\* the base geometry with exactly the enabled modifiers of the current
\* recipe applied to it in list order, each on the output of the one
\* before; nothing of an earlier frame is left in it.
C1_FrameIsPipelineOfBase ==
  FrameEnd => geometry = ApplyEnabled(Items, 1, baseGeometry, t, recipe.base)

\* A later frame has completed on a reordered recipe with two modifiers
\* enabled and one disabled, and the mesh is deformed.
C1_Witness ==
  /\ pc = "idle" /\ lastOp = "animate" /\ t > 0
  /\ Reordered
  /\ EnabledCount = 2 /\ Len(Items) = 3
  /\ geometry # baseGeometry

\* The recipe has an enabled modifier whose type MODIFIERS does not know:
\* the frame that reads it aborts.
FrameAborts == \E k \in 1..Len(Items) : Items[k].enabled /\ Items[k].type \notin MODIFIERS

\* C2: a frame that aborts on an unknown modifier type leaves the working
\* geometry as the last successful frame left it: none of its steps, the
\* reset and the modifiers before the unknown one included, changes a
\* position.
C2_AbortedFrameKeepsMesh ==
  [][((pc = "deform" \/ pc' = "deform") /\ FrameAborts) => geometry' = geometry]_vars

\* C3: after a frame that failed on an unknown modifier type, a next frame
\* is waiting to be served.
C3_FailedFrameReschedules ==
  (pc = "idle" /\ lastOp = "animateFailed") => rafPending

Count(items, m) == Cardinality({k \in 1..Len(items) : items[k] = m})

SameEntries(a, b) ==
  /\ Len(a) = Len(b)
  /\ \A k \in 1..Len(b) : b[k].type \notin {"undefined", "hole"}
  /\ \A k \in 1..Len(a) : Count(a, a[k]) = Count(b, a[k])

\* C4: for every integer index, moveModifierUp and moveModifierDown leave
\* the modifier sequence with the same length and the same entries (a swap
\* of neighbours or no change): none lost, duplicated or replaced by an
\* empty slot.
C4_MovesPermuteModifiers ==
  [][lastOp' = "panel" => SameEntries(recipe.modifiers.items, recipe'.modifiers.items)]_vars

\* C5: creating an appendage leaves unchanged the base geometry that the
\* existing mesh's working geometry is reset from each frame.
C5_AppendageKeepsBaseMesh ==
  [][Len(appendages') > Len(appendages) => baseGeometry' = baseGeometry]_vars

\* C6: in a frame, the turn of a modifier with enabled = false, whatever
\* its type, leaves every position as it was and the loop goes on to the
\* next modifier; and a frame whose modifiers are all disabled ends with the
\* working geometry equal to the base geometry.
C6_DisabledModifierIsSkipped ==
  /\ [][(pc = "deform" /\ idx < Len(Items) /\ Items[idx + 1].enabled = FALSE)
          => (geometry' = geometry /\ pc' = "deform" /\ idx' = idx + 1)]_vars
  /\ []((FrameEnd /\ EnabledCount = 0) => geometry = baseGeometry)

\* The loop has just passed a disabled modifier of an unknown type, after
\* an enabled one that deformed the mesh.
C6_Witness ==
  /\ pc = "deform" /\ idx >= 2
  /\ Items[idx].enabled = FALSE /\ Items[idx].type \notin MODIFIERS
  /\ geometry # baseGeometry

\* C7: the turn of an enabled taper modifier whose range is 0 leaves every
\* vertex's x and z (and so every position) unchanged: t is 0 and s is 1.
C7_TaperRangeZeroIsIdentity ==
  [][(/\ pc = "deform" /\ idx < Len(Items)
      /\ Items[idx + 1].enabled /\ Items[idx + 1].type = "taper"
      /\ Items[idx + 1].range = Num(0))
       => geometry' = geometry]_vars

\* C8: right after a regenerate the recipe has exactly the three modifiers
\* taper, bend, twistNoise in that order, and the base and working geometry
\* are the ones built from the new recipe's base.
C8_RegenerateInstallsTemplate ==
  (pc = "idle" /\ lastOp = "generate") =>
    /\ Len(Items) = 3
    /\ [k \in 1..3 |-> Items[k].type] = <<"taper", "bend", "twistNoise">>
    /\ baseGeometry = BuildBaseGeometry(recipe.base)
    /\ geometry = baseGeometry

\* A regenerate has just run after frames had deformed the old mesh.
C8_Witness ==
  /\ pc = "idle" /\ lastOp = "generate" /\ t > 0
  /\ rafPending /\ rotationY # Num(0)

\* C9: from a frame's reset to the end of its loop no step changes the
\* recipe or the base geometry.
C9_FrameReadsOneRecipe ==
  [][pc = "deform" => (recipe' = recipe /\ baseGeometry' = baseGeometry)]_vars

\* A frame is in the middle of its loop, on a recipe the panel has edited.
C9_Witness ==
  /\ pc = "deform" /\ idx >= 1 /\ idx < Len(Items)
  /\ lastOp = "panel"
  /\ geometry # baseGeometry

\* C10: the panel has one folder per entry of the current modifier
\* sequence, and the folder built with index i holds the object now at
\* position i.
C10_PanelMatchesRecipe ==
  /\ Len(gui) = Len(Items)
  /\ \A k \in 1..Len(gui) :
       /\ gui[k].index = k - 1
       /\ gui[k].mod = Items[k].id
       /\ gui[k].type = Items[k].type

\* A reorder has just run on a regenerated recipe.
C10_Witness ==
  /\ lastOp = "panel"
  /\ recipe.material.color = "#7a5a3a"
  /\ Reordered
  /\ Len(gui) = 3

====
